---- MODULE Spec2Model ----
(***************************************************************************)
(* Model of the EV Life Manager REST backend (src/backend/main.py).        *)
(*                                                                         *)
(* The state is the four process-local dictionaries, the last clock value  *)
(* written into a record (now) and the answer to the last request          *)
(* (response: the returned body with status 200/201, or the status of the  *)
(* HTTPException).  Every handler is an `async def` without an await, so   *)
(* a handler runs to completion on the event loop: one action per handler. *)
(* tasks holds the requests the event loop has accepted and their answers; *)
(* it is used by the specification of overlapping registrations only.      *)
(* The wall clock is taken not to step backwards.                          *)
(*                                                                         *)
(* Number representation.  The handlers compute with Python floats; the    *)
(* model uses exact scaled integers:                                       *)
(*   soc, health_score (rounded)        in hundredths of a percent point   *)
(*   soh                                in thousandths of a percent point  *)
(*   temperature                        in tenths of a degree Celsius      *)
(*   temp_factor                        in fifths      (1.0 = 5, 0.8 = 4)  *)
(*   cycle_factor                       in 1/20000     (1.0 = 20000)       *)
(*   the unrounded health_score         in 10^-8       (soh * tf * cf)     *)
(* soh is a float of any precision; it is given one digit more than the    *)
(* two that round(x, 2) keeps, so that the rounding has something to round *)
(* when both factors are 1.0.  The unrounded product reaches 10^10 > 2^31  *)
(* and is held as a pair <<q, r>> = q * 10^6 + r (q whole hundredths).     *)
(* The exact value and the IEEE-754 double differ by less than 10^-12,     *)
(* while two distinct exact values differ by at least 10^-8, so the band   *)
(* comparisons and the rounding agree with the float code except when the  *)
(* exact value lies exactly on a rounding midpoint (x.xx5): there the sign *)
(* of the binary representation error decides, which the parameter fp_up   *)
(* stands for.  (Evaluating the Python function on the inputs whose exact  *)
(* product lies on a band threshold, and on three million random inputs,   *)
(* shows no other difference.)                                             *)
(*                                                                         *)
(* Record fields that no handler ever reads back in a decision (phone,     *)
(* password, is_active, created_at, make, model, year, battery_capacity,   *)
(* status, odometer, registered_at, voltage, current) are left out of the  *)
(* records.                                                                *)
(***************************************************************************)
EXTENDS Integers, Sequences, FiniteSets, TLC

\* ------------------------------------------------------------------------
\* Bounds of the model: a create is not taken once its dictionary holds
\* this many records
\* ------------------------------------------------------------------------
MaxUsers == 2

MaxVehicles == 2

MaxLogs == 2

MaxSessions == 2

\* requests the event loop accepts in one run of SpecLoop
MaxTasks == 3

\* ------------------------------------------------------------------------
\* Request inputs (already validated by the pydantic models)
\* ------------------------------------------------------------------------
Emails == {"kim@ev.io", "lee@ev.io"}

Names == {"Kim"}

Vins == {"KMHEV000000000001", "KMHEV000000000002"}

UserCreate == [name : Names, email : Emails]

\* every id that can be stored (emails are unique) and one that cannot
UserIds == 1..(Cardinality(Emails) + 1)

\* every id that can be stored (VINs are unique) and one that cannot
VehicleIds == 1..(Cardinality(Vins) + 1)

VehicleCreate == [user_id : UserIds, vin : Vins]

\* soc in hundredths, soh in thousandths, temperature in tenths
BatteryLogBase ==
    { [soc |-> 2000, soh |-> 70000, temperature |-> 400,
       charging_cycles |-> 1000],
      [soc |-> 5000, soh |-> 89996, temperature |-> 200,
       charging_cycles |-> 0] }

\* start_time of a charging session, in ticks
StartTimes == 1..2

ChargingSessionCreate == [vehicle_id : VehicleIds, start_time : StartTimes]

Skips == 0..1

Limits == 1..2

\* ------------------------------------------------------------------------
\* State
\* ------------------------------------------------------------------------
VARIABLES fake_users_db, fake_vehicles_db, fake_battery_logs_db,
          fake_charging_sessions_db, now, response, tasks

vars == <<fake_users_db, fake_vehicles_db, fake_battery_logs_db,
          fake_charging_sessions_db, now, response, tasks>>

EmptyDict == [k \in {} |-> 0]

len(d) == Cardinality(DOMAIN d)

\* the dictionary is rebound to one holding only the new record
DictSetFresh(d, key, value) == [k \in {key} |-> value]

\* d[key] = value
DictSet(d, key, value) ==
    [k \in (DOMAIN d) \cup {key} |-> IF k = key THEN value ELSE d[k]]

\* the identifier is not advanced past the first record
NextIdStuck(d) == IF len(d) = 0 THEN 1 ELSE len(d)

\* len(d) + 1, the identifier every create allocates
NextId(d) == len(d) + 1

Max(a, b) == IF a >= b THEN a ELSE b

Min(a, b) == IF a <= b THEN a ELSE b

Abs(a) == IF a < 0 THEN -a ELSE a

\* Iteration order of a dict: insertion order.  Every insert uses the key
\* len(d) + 1, larger than every key present, so it is ascending key order.
RECURSIVE Keys(_)
Keys(S) ==
    IF S = {} THEN <<>>
    ELSE LET m == CHOOSE x \in S : \A y \in S : x <= y
         IN <<m>> \o Keys(S \ {m})

Values(d) ==
    LET keys == Keys(DOMAIN d)
    IN [i \in 1..Len(keys) |-> d[keys[i]]]

\* now is the timestamp of the newest stored record, in ticks of the clock
\* counted from the first one (only the order and the equality of timestamps
\* are ever used, so the epoch is arbitrary); NoReading before that.
NoReading == -1

\* datetime.now(): never earlier than the previous reading, possibly equal
\* to it (two requests within one tick of the clock).
datetime_now == IF now = NoReading THEN {0} ELSE {now, now + 1}

Init ==
    /\ fake_users_db = EmptyDict
    /\ fake_vehicles_db = EmptyDict
    /\ fake_battery_logs_db = EmptyDict
    /\ fake_charging_sessions_db = EmptyDict
    /\ now = NoReading
    /\ response = [op |-> "none", status |-> 0]
    /\ tasks = <<>>

\* ------------------------------------------------------------------------
\* Health evaluator
\* ------------------------------------------------------------------------
\* the upper end of the normal range is taken exclusive
temp_factor_exclusive(temperature) ==
    IF -100 <= temperature /\ temperature < 350 THEN 5 ELSE 4

\* outside the normal range the factor is a bonus of 1.2
temp_factor_bonus(temperature) ==
    IF -100 <= temperature /\ temperature <= 350 THEN 5 ELSE 6

temp_factor(temperature) ==
    IF -100 <= temperature /\ temperature <= 350 THEN 5 ELSE 4

\* the cycle count wraps every 2000 cycles
cycle_factor_wraps(cycles) == Max(10000, 20000 - 3 * (cycles % 2000))

cycle_factor(cycles) == Max(10000, 20000 - 3 * cycles)

\* soh * temp_factor * cycle_factor in 10^-8 as <<q, r>>, q * 10^6 + r with
\* 0 <= r < 10^6; the hundredths of soh and its last digit are multiplied
\* separately so that no intermediate value exceeds 10^9
Unrounded(soh, tf, cf) ==
    LET a == (soh \div 10) * tf * cf
        b == (soh % 10) * tf * cf
        low == 10 * (a % 100000) + b
    IN <<(a \div 100000) + (low \div 1000000), low % 1000000>>

\* round(x, 2) of an unrounded value <<q, r>>, result in hundredths
round2(x, fp_up) ==
    LET q == x[1]
        r == x[2]
    IN IF r > 500000 THEN q + 1
       ELSE IF r < 500000 THEN q
       ELSE IF fp_up THEN q + 1 ELSE q

BatteryHealthLevel == {"excellent", "good", "fair", "poor"}

\* The outcomes of the float rounding for a sample: both neighbours when the
\* exact product lies on a midpoint, the nearest hundredth otherwise.
FpOutcomes(sample) ==
    IF Unrounded(sample.soh, temp_factor(sample.temperature),
                 cycle_factor(sample.charging_cycles))[2] = 500000
    THEN BOOLEAN ELSE {FALSE}

\* the level is taken from the unrounded health_score: q * 10^6 + r is at
\* least a whole number t of hundredths exactly when q >= t
calculate_health_score(soc, soh, temperature, cycles, fp_up) ==
    LET health_score == Unrounded(soh, temp_factor(temperature),
                                  cycle_factor(cycles))
        level == IF health_score[1] >= 9000 THEN "excellent"
                 ELSE IF health_score[1] >= 7500 THEN "good"
                 ELSE IF health_score[1] >= 6000 THEN "fair"
                 ELSE "poor"
    IN <<round2(health_score, fp_up), level>>

\* ------------------------------------------------------------------------
\* Users
\* ------------------------------------------------------------------------
\* the scan starts one record too late
EmailTakenSkipFirst(email) ==
    \E k \in (DOMAIN fake_users_db) \ {1} : fake_users_db[k].email = email

\* the scan is left out
EmailTakenNever(email) == FALSE

\* the scan raises on a different email instead of an equal one
EmailTakenInverted(email) ==
    \E k \in DOMAIN fake_users_db : fake_users_db[k].email # email

EmailTaken(email) ==
    \E k \in DOMAIN fake_users_db : fake_users_db[k].email = email

create_user(user) ==
    IF EmailTaken(user.email)
    THEN /\ response' = [op |-> "create_user", status |-> 400, req |-> user]
         /\ UNCHANGED <<fake_users_db, fake_vehicles_db, fake_battery_logs_db,
                        fake_charging_sessions_db, now>>
    ELSE /\ len(fake_users_db) < MaxUsers
         /\ LET user_id == NextId(fake_users_db)
                new_user == [id |-> user_id, name |-> user.name,
                             email |-> user.email]
            IN /\ fake_users_db' = DictSet(fake_users_db, user_id, new_user)
               /\ response' = [op |-> "create_user", status |-> 201,
                               req |-> user, user_id |-> user_id,
                               user |-> new_user]
         /\ UNCHANGED <<fake_vehicles_db, fake_battery_logs_db,
                        fake_charging_sessions_db, now>>

\* the lookup takes the record out of the dictionary (pop instead of [])
get_user_pop(user_id) ==
    /\ IF user_id \notin DOMAIN fake_users_db
       THEN /\ response' = [op |-> "get_user", status |-> 404,
                            req |-> user_id]
            /\ fake_users_db' = fake_users_db
       ELSE /\ response' = [op |-> "get_user", status |-> 200,
                            req |-> user_id, body |-> fake_users_db[user_id]]
            /\ fake_users_db' = [k \in (DOMAIN fake_users_db) \ {user_id}
                                   |-> fake_users_db[k]]
    /\ UNCHANGED <<fake_vehicles_db, fake_battery_logs_db,
                   fake_charging_sessions_db, now>>

get_user(user_id) ==
    /\ IF user_id \notin DOMAIN fake_users_db
       THEN response' = [op |-> "get_user", status |-> 404, req |-> user_id]
       ELSE response' = [op |-> "get_user", status |-> 200, req |-> user_id,
                         body |-> fake_users_db[user_id]]
    /\ UNCHANGED <<fake_users_db, fake_vehicles_db, fake_battery_logs_db,
                   fake_charging_sessions_db, now>>

\* users[skip:limit]: the end of the slice is not moved by skip
SliceEndAtLimit(s, skip, limit) ==
    [i \in 1..Max(0, Min(Len(s), limit) - skip) |-> s[skip + i]]

\* users[skip:skip + limit]
Slice(s, skip, limit) ==
    [i \in 1..Max(0, Min(Len(s), skip + limit) - skip) |-> s[skip + i]]

get_users(skip, limit) ==
    /\ response' = [op |-> "get_users", status |-> 200,
                    req |-> <<skip, limit>>,
                    body |-> Slice(Values(fake_users_db), skip, limit)]
    /\ UNCHANGED <<fake_users_db, fake_vehicles_db, fake_battery_logs_db,
                   fake_charging_sessions_db, now>>

\* ------------------------------------------------------------------------
\* Vehicles
\* ------------------------------------------------------------------------
\* the scan starts one record too late
VinTakenSkipFirst(vin) ==
    \E k \in (DOMAIN fake_vehicles_db) \ {1} : fake_vehicles_db[k].vin = vin

VinTaken(vin) ==
    \E k \in DOMAIN fake_vehicles_db : fake_vehicles_db[k].vin = vin

\* the user id is looked up in the wrong dictionary
OwnerMissingWrongDict(user_id) == user_id \notin DOMAIN fake_vehicles_db

\* only a falsy user id is rejected
OwnerMissingFalsy(user_id) == user_id = 0

\* vehicle.user_id not in fake_users_db
OwnerMissing(user_id) == user_id \notin DOMAIN fake_users_db

\* the VIN scan runs before the lookup of the user
create_vehicle_vin_first(vehicle) ==
    IF VinTaken(vehicle.vin)
    THEN /\ response' = [op |-> "create_vehicle", status |-> 400,
                         req |-> vehicle]
         /\ UNCHANGED <<fake_users_db, fake_vehicles_db, fake_battery_logs_db,
                        fake_charging_sessions_db, now>>
    ELSE IF OwnerMissing(vehicle.user_id)
    THEN /\ response' = [op |-> "create_vehicle", status |-> 404,
                         req |-> vehicle]
         /\ UNCHANGED <<fake_users_db, fake_vehicles_db, fake_battery_logs_db,
                        fake_charging_sessions_db, now>>
    ELSE /\ len(fake_vehicles_db) < MaxVehicles
         /\ LET vehicle_id == NextId(fake_vehicles_db)
                new_vehicle == [id |-> vehicle_id,
                                user_id |-> vehicle.user_id,
                                vin |-> vehicle.vin]
            IN /\ fake_vehicles_db' =
                      DictSet(fake_vehicles_db, vehicle_id, new_vehicle)
               /\ response' = [op |-> "create_vehicle", status |-> 201,
                               req |-> vehicle, vehicle_id |-> vehicle_id,
                               vehicle |-> new_vehicle]
         /\ UNCHANGED <<fake_users_db, fake_battery_logs_db,
                        fake_charging_sessions_db, now>>

create_vehicle(vehicle) ==
    IF OwnerMissing(vehicle.user_id)
    THEN /\ response' = [op |-> "create_vehicle", status |-> 404,
                         req |-> vehicle]
         /\ UNCHANGED <<fake_users_db, fake_vehicles_db, fake_battery_logs_db,
                        fake_charging_sessions_db, now>>
    ELSE IF VinTaken(vehicle.vin)
    THEN /\ response' = [op |-> "create_vehicle", status |-> 400,
                         req |-> vehicle]
         /\ UNCHANGED <<fake_users_db, fake_vehicles_db, fake_battery_logs_db,
                        fake_charging_sessions_db, now>>
    ELSE /\ len(fake_vehicles_db) < MaxVehicles
         /\ LET vehicle_id == NextId(fake_vehicles_db)
                new_vehicle == [id |-> vehicle_id,
                                user_id |-> vehicle.user_id,
                                vin |-> vehicle.vin]
            IN /\ fake_vehicles_db' =
                      DictSet(fake_vehicles_db, vehicle_id, new_vehicle)
               /\ response' = [op |-> "create_vehicle", status |-> 201,
                               req |-> vehicle, vehicle_id |-> vehicle_id,
                               vehicle |-> new_vehicle]
         /\ UNCHANGED <<fake_users_db, fake_battery_logs_db,
                        fake_charging_sessions_db, now>>

get_vehicle(vehicle_id) ==
    /\ IF vehicle_id \notin DOMAIN fake_vehicles_db
       THEN response' = [op |-> "get_vehicle", status |-> 404,
                         req |-> vehicle_id]
       ELSE response' = [op |-> "get_vehicle", status |-> 200,
                         req |-> vehicle_id,
                         body |-> fake_vehicles_db[vehicle_id]]
    /\ UNCHANGED <<fake_users_db, fake_vehicles_db, fake_battery_logs_db,
                   fake_charging_sessions_db, now>>
\* ------------------------------------------------------------------------
\* Battery
\* ------------------------------------------------------------------------
None == <<>>

\* the loop forgets to compare log.vehicle_id
RECURSIVE ScanLatestAnyVehicle(_, _, _, _)
ScanLatestAnyVehicle(logs, i, vehicle_id, latest_log) ==
    IF i > Len(logs) THEN latest_log
    ELSE LET log == logs[i]
         IN IF latest_log = None \/ log.timestamp > latest_log[1].timestamp
            THEN ScanLatestAnyVehicle(logs, i + 1, vehicle_id, <<log>>)
            ELSE ScanLatestAnyVehicle(logs, i + 1, vehicle_id, latest_log)

\* the loop of get_battery_status over fake_battery_logs_db.values();
\* latest_log is None (<<>>) or <<log>>
RECURSIVE ScanLatest(_, _, _, _)
ScanLatest(logs, i, vehicle_id, latest_log) ==
    IF i > Len(logs) THEN latest_log
    ELSE LET log == logs[i]
         IN IF log.vehicle_id = vehicle_id
               /\ (latest_log = None \/ log.timestamp > latest_log[1].timestamp)
            THEN ScanLatest(logs, i + 1, vehicle_id, <<log>>)
            ELSE ScanLatest(logs, i + 1, vehicle_id, latest_log)

Recommendations(log) ==
    << IF log.health_score < 8000 THEN "check_regularly" ELSE "battery_ok",
       IF Abs(log.temperature) > 350 THEN "avoid_extreme_temperature"
       ELSE "null" >>

\* the demo record returned when the vehicle has no log; its last_updated is
\* a reading of the clock that is returned and not stored
DefaultBatteryStatus(vehicle_id, t) ==
    [vehicle_id |-> vehicle_id, soc |-> 8550, soh |-> 92300,
     temperature |-> 285, health_score |-> 8870, health_level |-> "good",
     charging_cycles |-> 245, last_updated |-> t,
     recommendations |-> <<"battery_ok", "optimal_temperature">>]

get_battery_status(vehicle_id) ==
    IF vehicle_id \notin DOMAIN fake_vehicles_db
    THEN /\ response' = [op |-> "get_battery_status", status |-> 404,
                         req |-> vehicle_id]
         /\ UNCHANGED <<fake_users_db, fake_vehicles_db, fake_battery_logs_db,
                        fake_charging_sessions_db, now>>
    ELSE LET latest_log ==
                 ScanLatest(Values(fake_battery_logs_db), 1, vehicle_id, None)
         IN IF latest_log # None
            THEN /\ response' =
                        [op |-> "get_battery_status", status |-> 200,
                         req |-> vehicle_id,
                         body |->
                           [vehicle_id |-> vehicle_id,
                            soc |-> latest_log[1].soc,
                            soh |-> latest_log[1].soh,
                            temperature |-> latest_log[1].temperature,
                            health_score |-> latest_log[1].health_score,
                            health_level |-> latest_log[1].health_level,
                            charging_cycles |-> latest_log[1].charging_cycles,
                            last_updated |-> latest_log[1].timestamp,
                            recommendations |-> Recommendations(latest_log[1])]]
                 /\ UNCHANGED <<fake_users_db, fake_vehicles_db,
                                fake_battery_logs_db,
                                fake_charging_sessions_db, now>>
            ELSE \E t \in datetime_now :
                 /\ response' =
                        [op |-> "get_battery_status", status |-> 200,
                         req |-> vehicle_id,
                         body |-> DefaultBatteryStatus(vehicle_id, t)]
                 /\ UNCHANGED <<fake_users_db, fake_vehicles_db,
                                fake_battery_logs_db,
                                fake_charging_sessions_db, now>>

create_battery_log(vehicle_id, battery_data, fp_up) ==
    IF vehicle_id \notin DOMAIN fake_vehicles_db
    THEN /\ response' = [op |-> "create_battery_log", status |-> 404,
                         req |-> <<vehicle_id, battery_data>>]
         /\ UNCHANGED <<fake_users_db, fake_vehicles_db, fake_battery_logs_db,
                        fake_charging_sessions_db, now>>
    ELSE /\ len(fake_battery_logs_db) < MaxLogs
         /\ \E t \in datetime_now :
              LET result == calculate_health_score(battery_data.soc,
                                                   battery_data.soh,
                                                   battery_data.temperature,
                                                   battery_data.charging_cycles,
                                                   fp_up)
                  log_id == NextId(fake_battery_logs_db)
                  new_log == [id |-> log_id,
                              vehicle_id |-> vehicle_id,
                              soc |-> battery_data.soc,
                              soh |-> battery_data.soh,
                              temperature |-> battery_data.temperature,
                              charging_cycles |-> battery_data.charging_cycles,
                              timestamp |-> t,
                              health_score |-> result[1],
                              health_level |-> result[2]]
              IN /\ now' = t
                 /\ fake_battery_logs_db' =
                        DictSet(fake_battery_logs_db, log_id, new_log)
                 /\ response' = [op |-> "create_battery_log", status |-> 201,
                                 req |-> <<vehicle_id, battery_data>>,
                                 log_id |-> log_id, battery_log |-> new_log]
         /\ UNCHANGED <<fake_users_db, fake_vehicles_db,
                        fake_charging_sessions_db>>

\* ------------------------------------------------------------------------
\* Specification of the service: any sequence of requests
\* ------------------------------------------------------------------------
Next ==
    \/ \E user \in UserCreate : create_user(user) /\ UNCHANGED tasks
    \/ \E user_id \in UserIds : get_user(user_id) /\ UNCHANGED tasks
    \/ \E skip \in Skips, limit \in Limits :
          get_users(skip, limit) /\ UNCHANGED tasks
    \/ \E vehicle \in VehicleCreate :
          create_vehicle(vehicle) /\ UNCHANGED tasks
    \/ \E vehicle_id \in VehicleIds :
          get_vehicle(vehicle_id) /\ UNCHANGED tasks
    \/ \E vehicle_id \in VehicleIds :
          get_battery_status(vehicle_id) /\ UNCHANGED tasks
    \/ \E vehicle_id \in VehicleIds, battery_data \in BatteryLogBase :
          \E fp_up \in FpOutcomes(battery_data) :
             create_battery_log(vehicle_id, battery_data, fp_up)
             /\ UNCHANGED tasks

Spec == Init /\ [][Next]_vars

\* ------------------------------------------------------------------------
\* Specification of the health evaluator alone: calculate_health_score is
\* applied to samples drawn from the validated ranges of BatteryLogBase
\* (soc, soh in [0,100], temperature in [-40,80], charging_cycles >= 0).
\* ------------------------------------------------------------------------
EvalSoc == {0, 8550, 10000}

EvalSoh == {0, 10, 60000, 70000, 75000, 89995, 89996, 90000, 90010, 93750,
            98200, 99996, 100000}

EvalTemperature == {-400, -101, -100, 0, 255, 350, 351, 400, 800}

EvalCycles == {0, 1, 667, 1000, 2000, 3333, 3334, 5000, 100000000}

EvalSamples == [soc : EvalSoc, soh : EvalSoh, temperature : EvalTemperature,
                charging_cycles : EvalCycles]

\* a call of calculate_health_score with its arguments, not yet returned
InitEval ==
    /\ fake_users_db = EmptyDict
    /\ fake_vehicles_db = EmptyDict
    /\ fake_battery_logs_db = EmptyDict
    /\ fake_charging_sessions_db = EmptyDict
    /\ now = NoReading
    /\ response \in { [op |-> "call", status |-> 0, req |-> sample] :
                      sample \in EvalSamples }
    /\ tasks = <<>>

Evaluate(fp_up) ==
    /\ response.op = "call"
    /\ LET sample == response.req
           result == calculate_health_score(sample.soc, sample.soh,
                                            sample.temperature,
                                            sample.charging_cycles, fp_up)
       IN response' = [op |-> "calculate_health_score", status |-> 0,
                       req |-> sample, health_score |-> result[1],
                       health_level |-> result[2]]
    /\ UNCHANGED <<fake_users_db, fake_vehicles_db, fake_battery_logs_db,
                   fake_charging_sessions_db, now, tasks>>

NextEval == \E fp_up \in FpOutcomes(response.req) : Evaluate(fp_up)

SpecEval == InitEval /\ [][NextEval]_vars

\* ------------------------------------------------------------------------
\* Specification of overlapping registrations.  Every request is a task of
\* the event loop; a task that has been accepted is pending until the loop
\* runs its handler, and several tasks can be pending together.  The
\* handlers are coroutines without an await, so the loop runs the handler of
\* a task from its first line to its return before it runs anything else;
\* which pending task it runs next is not fixed.
\* ------------------------------------------------------------------------
Registrations ==
    { [op |-> "create_user", req |-> user] : user \in UserCreate }
    \cup { [op |-> "create_vehicle", req |-> vehicle] :
             vehicle \in VehicleCreate }

Pending == { i \in 1..Len(tasks) : tasks[i].pc = "pending" }

\* a registration arrives; with is the set of tasks pending at that moment
accept_request(registration) ==
    /\ Len(tasks) < MaxTasks
    /\ tasks' = Append(tasks, [op |-> registration.op,
                               req |-> registration.req,
                               pc |-> "pending", status |-> 0,
                               with |-> Pending])
    /\ UNCHANGED <<fake_users_db, fake_vehicles_db, fake_battery_logs_db,
                   fake_charging_sessions_db, now, response>>

\* the event loop runs the handler of a pending task to its end
run_task(i) ==
    /\ tasks[i].pc = "pending"
    /\ IF tasks[i].op = "create_user"
       THEN create_user(tasks[i].req)
       ELSE create_vehicle(tasks[i].req)
    /\ tasks' = [tasks EXCEPT ![i].pc = "done",
                              ![i].status = response'.status]

NextLoop ==
    \/ \E registration \in Registrations : accept_request(registration)
    \/ \E i \in 1..Len(tasks) : run_task(i)

SpecLoop == Init /\ [][NextLoop]_vars

\* ------------------------------------------------------------------------
\* Specification of the charging sessions.  The source file ends inside
\* get_charging_sessions (after its signature and the start of its first
\* check) and holds no handler that stores a session: the handler storing a
\* session and the rest of get_charging_sessions follow the documented
\* behaviour (the referenced vehicle must exist; the sessions of the vehicle
\* ordered by start time, latest first, then cut to the page).
\* ------------------------------------------------------------------------
create_charging_session(session) ==
    IF session.vehicle_id \notin DOMAIN fake_vehicles_db
    THEN /\ response' = [op |-> "create_charging_session", status |-> 404,
                         req |-> session]
         /\ UNCHANGED <<fake_users_db, fake_vehicles_db, fake_battery_logs_db,
                        fake_charging_sessions_db, now>>
    ELSE /\ len(fake_charging_sessions_db) < MaxSessions
         /\ LET session_id == NextId(fake_charging_sessions_db)
                new_session == [id |-> session_id,
                                vehicle_id |-> session.vehicle_id,
                                start_time |-> session.start_time]
            IN /\ fake_charging_sessions_db' =
                      DictSet(fake_charging_sessions_db, session_id,
                              new_session)
               /\ response' = [op |-> "create_charging_session",
                               status |-> 201, req |-> session,
                               session_id |-> session_id,
                               session |-> new_session]
         /\ UNCHANGED <<fake_users_db, fake_vehicles_db, fake_battery_logs_db,
                        now>>

\* sorted(sessions, key=start_time, reverse=True): latest first, sessions
\* with one start time in the order they had
RECURSIVE SortedByStartDesc(_)
SortedByStartDesc(sessions) ==
    IF sessions = <<>> THEN <<>>
    ELSE LET n == Len(sessions)
             rest == SortedByStartDesc(SubSeq(sessions, 1, n - 1))
             before == Cardinality({ i \in 1..Len(rest) :
                          rest[i].start_time >= sessions[n].start_time })
         IN SubSeq(rest, 1, before) \o <<sessions[n]>>
               \o SubSeq(rest, before + 1, Len(rest))

SessionsOf(vehicle_id) ==
    LET all == Values(fake_charging_sessions_db)
        own == { i \in 1..Len(all) : all[i].vehicle_id = vehicle_id }
        keys == Keys(own)
    IN SortedByStartDesc([i \in 1..Len(keys) |-> all[keys[i]]])

\* GET /api/vehicles/{vehicle_id}/charging-sessions?skip=..&limit=..
\* The handler declares vehicle_id and limit only: a skip in the query string
\* is not a parameter of the handler and never reaches it.
get_charging_sessions(vehicle_id, limit, skip) ==
    /\ IF vehicle_id \notin DOMAIN fake_vehicles_db
       THEN response' = [op |-> "get_charging_sessions", status |-> 404,
                         req |-> <<vehicle_id, skip, limit>>]
       ELSE response' = [op |-> "get_charging_sessions", status |-> 200,
                         req |-> <<vehicle_id, skip, limit>>,
                         body |-> Slice(SessionsOf(vehicle_id), 0, limit)]
    /\ UNCHANGED <<fake_users_db, fake_vehicles_db, fake_battery_logs_db,
                   fake_charging_sessions_db, now>>

NextCharging ==
    \/ \E user \in UserCreate : create_user(user) /\ UNCHANGED tasks
    \/ \E vehicle \in VehicleCreate :
          create_vehicle(vehicle) /\ UNCHANGED tasks
    \/ \E session \in ChargingSessionCreate :
          create_charging_session(session) /\ UNCHANGED tasks
    \/ \E vehicle_id \in VehicleIds, skip \in Skips, limit \in Limits :
          get_charging_sessions(vehicle_id, limit, skip) /\ UNCHANGED tasks

SpecCharging == Init /\ [][NextCharging]_vars

\* ========================================================================
\* Properties
\* ========================================================================

\* C1: in every reachable state no two distinct records of the Users
\* collection have the same email.
C1_EmailUnique ==
    \A k1 \in DOMAIN fake_users_db, k2 \in DOMAIN fake_users_db :
        k1 # k2 => fake_users_db[k1].email # fake_users_db[k2].email

\* two users are stored and a registration has just been refused
C1_Witness ==
    /\ len(fake_users_db) = 2
    /\ response.op = "create_user"
    /\ response.status = 400

\* C2: in every reachable state no two distinct records of the Vehicles
\* collection have the same VIN.
C2_VinUnique ==
    \A k1 \in DOMAIN fake_vehicles_db, k2 \in DOMAIN fake_vehicles_db :
        k1 # k2 => fake_vehicles_db[k1].vin # fake_vehicles_db[k2].vin

\* two vehicles are stored and a registration has just been refused for its VIN
C2_Witness ==
    /\ len(fake_vehicles_db) = 2
    /\ response.op = "create_vehicle"
    /\ response.status = 400

\* C3: a create_user request whose email no stored user has answers 201 and
\* adds exactly one user (the others are kept); a request whose email a
\* stored user has answers 400 and leaves fake_users_db as it was.
C3_CreateUserOutcome ==
    [][ \A user \in UserCreate :
          (response'.op = "create_user" /\ response'.req = user) =>
             IF \E k \in DOMAIN fake_users_db :
                    fake_users_db[k].email = user.email
             THEN /\ response'.status = 400
                  /\ fake_users_db' = fake_users_db
             ELSE /\ response'.status = 201
                  /\ Cardinality(DOMAIN fake_users_db') =
                         Cardinality(DOMAIN fake_users_db) + 1
                  /\ \A k \in DOMAIN fake_users_db :
                         /\ k \in DOMAIN fake_users_db'
                         /\ fake_users_db'[k] = fake_users_db[k]
                  /\ \E k \in (DOMAIN fake_users_db') \ (DOMAIN fake_users_db) :
                         fake_users_db'[k].email = user.email ]_vars

\* a second registration with the email of the first user has been refused
C3_Witness ==
    /\ response.op = "create_user"
    /\ response.status = 400
    /\ 1 \in DOMAIN fake_users_db
    /\ fake_users_db[1].email = response.req.email
    /\ len(fake_users_db) = 1

\* C4: a create_vehicle request answers 404 when its user id is not a
\* stored user, 400 when the user is stored and the VIN is the VIN of a
\* stored vehicle, and 201 (one vehicle added) when the user is stored and
\* the VIN is new; both failures leave fake_vehicles_db as it was.
C4_CreateVehicleOutcome ==
    [][ \A vehicle \in VehicleCreate :
          (response'.op = "create_vehicle" /\ response'.req = vehicle) =>
             IF vehicle.user_id \notin DOMAIN fake_users_db
             THEN /\ response'.status = 404
                  /\ fake_vehicles_db' = fake_vehicles_db
             ELSE IF \E k \in DOMAIN fake_vehicles_db :
                         fake_vehicles_db[k].vin = vehicle.vin
             THEN /\ response'.status = 400
                  /\ fake_vehicles_db' = fake_vehicles_db
             ELSE /\ response'.status = 201
                  /\ Cardinality(DOMAIN fake_vehicles_db') =
                         Cardinality(DOMAIN fake_vehicles_db) + 1
                  /\ \E k \in (DOMAIN fake_vehicles_db')
                                 \ (DOMAIN fake_vehicles_db) :
                         /\ fake_vehicles_db'[k].vin = vehicle.vin
                         /\ fake_vehicles_db'[k].user_id = vehicle.user_id ]_vars

\* with a vehicle stored, a registration for an unknown user has been refused
C4_Witness ==
    /\ response.op = "create_vehicle"
    /\ response.status = 404
    /\ len(fake_vehicles_db) >= 1

RefInv ==
    /\ \A k \in DOMAIN fake_battery_logs_db :
           fake_battery_logs_db[k].vehicle_id \in DOMAIN fake_vehicles_db
    /\ \A k \in DOMAIN fake_vehicles_db :
           fake_vehicles_db[k].user_id \in DOMAIN fake_users_db

LogForMissingVehicleRefused ==
    \A vehicle_id \in VehicleIds :
        ( /\ response'.op = "create_battery_log"
          /\ response'.req[1] = vehicle_id
          /\ vehicle_id \notin DOMAIN fake_vehicles_db )
        => /\ response'.status = 404
           /\ fake_battery_logs_db' = fake_battery_logs_db

\* C5: every stored log references a stored vehicle and every stored vehicle
\* references a stored user; create_battery_log for a vehicle id that is
\* not stored answers 404 and stores no log.
C5_ReferentialIntegrity ==
    []RefInv /\ [][LogForMissingVehicleRefused]_vars

\* a log is stored and a log for an unknown vehicle has just been refused
C5_Witness ==
    /\ len(fake_battery_logs_db) >= 1
    /\ response.op = "create_battery_log"
    /\ response.status = 404

\* C6: a successful create hands out an identifier that is not a key of its
\* collection, keeps every record stored before, and no key ever leaves a
\* collection: no identifier is handed out twice, no record is overwritten.
C6_FreshIdentifiers ==
    [][ /\ ( (response'.op = "create_user" /\ response'.status = 201) =>
               ( /\ response'.user_id \notin DOMAIN fake_users_db
                 /\ response'.user_id \in DOMAIN fake_users_db' ) )
        /\ ( (response'.op = "create_vehicle" /\ response'.status = 201) =>
               ( /\ response'.vehicle_id \notin DOMAIN fake_vehicles_db
                 /\ response'.vehicle_id \in DOMAIN fake_vehicles_db' ) )
        /\ ( (response'.op = "create_battery_log" /\ response'.status = 201) =>
               ( /\ response'.log_id \notin DOMAIN fake_battery_logs_db
                 /\ response'.log_id \in DOMAIN fake_battery_logs_db' ) )
        /\ \A k \in DOMAIN fake_users_db :
              /\ k \in DOMAIN fake_users_db'
              /\ fake_users_db'[k] = fake_users_db[k]
        /\ \A k \in DOMAIN fake_vehicles_db :
              /\ k \in DOMAIN fake_vehicles_db'
              /\ fake_vehicles_db'[k] = fake_vehicles_db[k]
        /\ \A k \in DOMAIN fake_battery_logs_db :
              /\ k \in DOMAIN fake_battery_logs_db'
              /\ fake_battery_logs_db'[k] = fake_battery_logs_db[k] ]_vars

\* the second log has just been stored, after two users and a vehicle
C6_Witness ==
    /\ response.op = "create_battery_log"
    /\ response.status = 201
    /\ response.log_id = 2
    /\ len(fake_battery_logs_db) = 2
    /\ len(fake_users_db) = 2

\* C7: a successful create_battery_log(vehicle_id, sample) immediately
\* followed by get_battery_status(vehicle_id) returns the score and level of
\* the health evaluator for that sample.
C7_RoundTrip ==
    [][ ( /\ response.op = "create_battery_log"
          /\ response.status = 201
          /\ response'.op = "get_battery_status"
          /\ response'.req = response.req[1] )
        => \E fp_up \in BOOLEAN :
             LET sample == response.req[2]
                 result == calculate_health_score(sample.soc, sample.soh,
                                                  sample.temperature,
                                                  sample.charging_cycles, fp_up)
             IN /\ response'.status = 200
                /\ response'.body.health_score = result[1]
                /\ response'.body.health_level = result[2] ]_vars

\* C8: get_battery_status on a stored vehicle without any log answers 404.
C8_NoLogNotFound ==
    ( /\ response.op = "get_battery_status"
      /\ response.req \in DOMAIN fake_vehicles_db
      /\ ~ \E k \in DOMAIN fake_battery_logs_db :
             fake_battery_logs_db[k].vehicle_id = response.req )
    => response.status = 404

\* C9: get_battery_status answers 404 for a vehicle id that is not stored;
\* for a stored vehicle with a log it returns the fields of a stored log of
\* that very vehicle whose timestamp is at least that of every stored log of
\* the vehicle.
C9_LatestOfVehicle ==
    response.op = "get_battery_status" =>
       IF response.req \notin DOMAIN fake_vehicles_db
       THEN response.status = 404
       ELSE LET own == { k \in DOMAIN fake_battery_logs_db :
                           fake_battery_logs_db[k].vehicle_id = response.req }
            IN own # {} =>
                 /\ response.status = 200
                 /\ response.body.vehicle_id = response.req
                 /\ \E k \in own :
                      /\ response.body.last_updated =
                             fake_battery_logs_db[k].timestamp
                      /\ response.body.soc = fake_battery_logs_db[k].soc
                      /\ response.body.soh = fake_battery_logs_db[k].soh
                      /\ response.body.temperature =
                             fake_battery_logs_db[k].temperature
                      /\ response.body.charging_cycles =
                             fake_battery_logs_db[k].charging_cycles
                      /\ response.body.health_score =
                             fake_battery_logs_db[k].health_score
                      /\ response.body.health_level =
                             fake_battery_logs_db[k].health_level
                 /\ \A j \in own :
                      fake_battery_logs_db[j].timestamp
                          <= response.body.last_updated

\* the status of a vehicle was read while another vehicle has a later log
C9_Witness ==
    /\ response.op = "get_battery_status"
    /\ response.status = 200
    /\ \E k \in DOMAIN fake_battery_logs_db, j \in DOMAIN fake_battery_logs_db :
         /\ fake_battery_logs_db[k].vehicle_id = response.req
         /\ fake_battery_logs_db[j].vehicle_id # response.req
         /\ fake_battery_logs_db[j].timestamp
                > fake_battery_logs_db[k].timestamp

\* C10: the score is soh * temp_factor * cycle_factor (10 * whole + digit,
\* in 10^-8, for the hundredths and the last digit of soh) rounded to the
\* nearest hundredth, with temp_factor 1.0 on [-10, 35] and 0.8 outside, and
\* cycle_factor 1.0 - (cycles / 2000) * 0.3 floored at 0.5; soh = 70 at
\* 40 degrees and 1000 cycles gives 47.6; soc does not enter the result.
C10_ScoreFormula ==
    response.op = "calculate_health_score" =>
       LET sample == response.req
           tf == IF sample.temperature < -100 \/ sample.temperature > 350
                 THEN 4 ELSE 5
           linear == 20000 - 3 * sample.charging_cycles
           cf == IF linear < 10000 THEN 10000 ELSE linear
           whole == (sample.soh \div 10) * tf * cf
           digit == (sample.soh % 10) * tf * cf
           diff == 100000 * response.health_score - whole
       IN /\ diff >= -150000
          /\ diff <= 150000
          /\ 10 * diff - digit >= -500000
          /\ 10 * diff - digit <= 500000
          /\ ( /\ sample.soh = 70000
               /\ sample.temperature = 400
               /\ sample.charging_cycles = 1000 )
             => response.health_score = 4760
          /\ sample.charging_cycles = 100000000 =>
                100 * response.health_score + 50 >= sample.soh * tf
          /\ \A soc \in EvalSoc, fp_up \in BOOLEAN :
                calculate_health_score(soc, sample.soh, sample.temperature,
                                       sample.charging_cycles, fp_up)
                = calculate_health_score(sample.soc, sample.soh,
                                         sample.temperature,
                                         sample.charging_cycles, fp_up)

\* the evaluator has returned 47.6 for soh 70, 40 degrees, 1000 cycles
C10_Witness ==
    /\ response.op = "calculate_health_score"
    /\ response.req.soh = 70000
    /\ response.req.temperature = 400
    /\ response.req.charging_cycles = 1000
    /\ response.health_score = 4760

\* C11: the health_level of every stored log is the band of its stored
\* (rounded) health_score: excellent from 90, good from 75, fair from 60,
\* poor below; no log has 90.0 with good, 75.0 with fair or 60.0 with poor.
C11_LevelOfStoredScore ==
    \A k \in DOMAIN fake_battery_logs_db :
        LET s == fake_battery_logs_db[k].health_score
        IN fake_battery_logs_db[k].health_level =
              IF s >= 9000 THEN "excellent"
              ELSE IF s >= 7500 THEN "good"
              ELSE IF s >= 6000 THEN "fair"
              ELSE "poor"

\* C12: with soh and temperature fixed, a larger charging-cycle count never
\* gives a larger score.  Two cycle counts at or past the floor (3334) run
\* the very same float computation and give the same score; for any other
\* pair every outcome of the rounding is compared.
C12_MonotoneInCycles ==
    response.op = "calculate_health_score" =>
       \A cycles \in EvalCycles :
          cycles >= response.req.charging_cycles =>
             LET sample == response.req
                 more == [sample EXCEPT !.charging_cycles = cycles]
                 same == \/ cycles = sample.charging_cycles
                         \/ (cycles >= 3334 /\ sample.charging_cycles >= 3334)
             IN IF same
                THEN \E fp_up \in FpOutcomes(more) :
                        calculate_health_score(more.soc, more.soh,
                                               more.temperature, cycles,
                                               fp_up)[1]
                        = response.health_score
                ELSE \A fp_up \in FpOutcomes(more) :
                        calculate_health_score(more.soc, more.soh,
                                               more.temperature, cycles,
                                               fp_up)[1]
                        <= response.health_score

\* the evaluator has returned 70.0 for soh 100 at 2000 cycles, below the
\* 100.0 it returns for the same battery at 0 cycles
C12_Witness ==
    /\ response.op = "calculate_health_score"
    /\ response.req.soh = 100000
    /\ response.req.temperature = 0
    /\ response.req.charging_cycles = 2000
    /\ response.health_score = 7000
    /\ \E fp_up \in BOOLEAN :
          calculate_health_score(0, 100000, 0, 0, fp_up)[1] = 10000

OneAdded(d, d2) ==
    /\ Cardinality(DOMAIN d2) = Cardinality(DOMAIN d) + 1
    /\ \A k \in DOMAIN d : k \in DOMAIN d2 /\ d2[k] = d[k]

\* C14: a request that fails, and every read (get_user, get_users,
\* get_vehicle, get_battery_status), leaves all four collections as they
\* were; a successful create adds exactly one record to its own collection
\* and leaves the other three collections and every earlier record as they
\* were.
C14_Frame ==
    [][ /\ response'.status # 201 =>
              /\ fake_users_db' = fake_users_db
              /\ fake_vehicles_db' = fake_vehicles_db
              /\ fake_battery_logs_db' = fake_battery_logs_db
              /\ fake_charging_sessions_db' = fake_charging_sessions_db
        /\ response'.op \in {"get_user", "get_users", "get_vehicle",
                              "get_battery_status"} =>
              response'.status # 201
        /\ (response'.op = "create_user" /\ response'.status = 201) =>
              /\ OneAdded(fake_users_db, fake_users_db')
              /\ fake_vehicles_db' = fake_vehicles_db
              /\ fake_battery_logs_db' = fake_battery_logs_db
              /\ fake_charging_sessions_db' = fake_charging_sessions_db
        /\ (response'.op = "create_vehicle" /\ response'.status = 201) =>
              /\ OneAdded(fake_vehicles_db, fake_vehicles_db')
              /\ fake_users_db' = fake_users_db
              /\ fake_battery_logs_db' = fake_battery_logs_db
              /\ fake_charging_sessions_db' = fake_charging_sessions_db
        /\ (response'.op = "create_battery_log" /\ response'.status = 201) =>
              /\ OneAdded(fake_battery_logs_db, fake_battery_logs_db')
              /\ fake_users_db' = fake_users_db
              /\ fake_vehicles_db' = fake_vehicles_db
              /\ fake_charging_sessions_db' = fake_charging_sessions_db
        /\ response'.status = 201 =>
              response'.op \in {"create_user", "create_vehicle",
                                "create_battery_log"} ]_vars

\* a stored user has just been read while users, vehicles and logs are stored
C14_Witness ==
    /\ response.op = "get_user"
    /\ response.status = 200
    /\ len(fake_users_db) = 2
    /\ len(fake_vehicles_db) = 2
    /\ len(fake_battery_logs_db) = 2

\* what the last create or lookup of a user or a vehicle has answered
RecordReturned ==
    /\ (response.op = "create_user" /\ response.status = 201) =>
          /\ response.user.email = response.req.email
          /\ response.user.name = response.req.name
          /\ response.user.id = response.user_id
          /\ response.user_id \in DOMAIN fake_users_db
          /\ fake_users_db[response.user_id] = response.user
    /\ response.op = "get_user" =>
          IF response.req \in DOMAIN fake_users_db
          THEN /\ response.status = 200
               /\ response.body = fake_users_db[response.req]
               /\ response.body.id = response.req
          ELSE response.status = 404
    /\ (response.op = "create_vehicle" /\ response.status = 201) =>
          /\ response.vehicle.vin = response.req.vin
          /\ response.vehicle.user_id = response.req.user_id
          /\ response.vehicle.id = response.vehicle_id
          /\ response.vehicle_id \in DOMAIN fake_vehicles_db
          /\ fake_vehicles_db[response.vehicle_id] = response.vehicle
    /\ response.op = "get_vehicle" =>
          IF response.req \in DOMAIN fake_vehicles_db
          THEN /\ response.status = 200
               /\ response.body = fake_vehicles_db[response.req]
               /\ response.body.id = response.req
          ELSE response.status = 404

\* a created id is new, and a stored user or vehicle stays as it was stored
RecordKept ==
    /\ (response'.op = "create_user" /\ response'.status = 201) =>
          response'.user_id \notin DOMAIN fake_users_db
    /\ (response'.op = "create_vehicle" /\ response'.status = 201) =>
          response'.vehicle_id \notin DOMAIN fake_vehicles_db
    /\ \A k \in DOMAIN fake_users_db :
          k \in DOMAIN fake_users_db' /\ fake_users_db'[k] = fake_users_db[k]
    /\ \A k \in DOMAIN fake_vehicles_db :
          /\ k \in DOMAIN fake_vehicles_db'
          /\ fake_vehicles_db'[k] = fake_vehicles_db[k]

\* C17: a successful create_user returns a record with the email and name
\* of the request and a new id, stored under that id; the record stays
\* stored unchanged, and get_user returns the record stored under the id it
\* is given, 404 for an id under which nothing is stored; the same for
\* create_vehicle (VIN, user id) and get_vehicle.
C17_CreateThenGet ==
    []RecordReturned /\ [][RecordKept]_vars

\* the first user is read back after a second user has been registered
C17_Witness ==
    /\ response.op = "get_user"
    /\ response.status = 200
    /\ response.req = 1
    /\ len(fake_users_db) = 2
    /\ response.body.email # fake_users_db[2].email

\* C18: a create_vehicle request whose user id is not a stored user and
\* whose VIN is the VIN of a stored vehicle answers 404, never 400.
C18_UserCheckedFirst ==
    [][ ( /\ response'.op = "create_vehicle"
          /\ response'.req.user_id \notin DOMAIN fake_users_db
          /\ \E k \in DOMAIN fake_vehicles_db :
                fake_vehicles_db[k].vin = response'.req.vin )
        => response'.status = 404 ]_vars

\* a registration naming an unknown user and a stored VIN was answered 404
C18_Witness ==
    /\ response.op = "create_vehicle"
    /\ response.status = 404
    /\ response.req.user_id \notin DOMAIN fake_users_db
    /\ \E k \in DOMAIN fake_vehicles_db :
          fake_vehicles_db[k].vin = response.req.vin

\* C19: the keys of each collection are exactly 1..n for its n records and
\* every record carries its key as id; get_users(skip, limit) returns the
\* users with ids skip + 1 .. min(skip + limit, n) in ascending order, the
\* empty list when skip >= n.
C19_DenseIdsAndPaging ==
    /\ DOMAIN fake_users_db = 1..len(fake_users_db)
    /\ DOMAIN fake_vehicles_db = 1..len(fake_vehicles_db)
    /\ DOMAIN fake_battery_logs_db = 1..len(fake_battery_logs_db)
    /\ DOMAIN fake_charging_sessions_db = 1..len(fake_charging_sessions_db)
    /\ \A k \in DOMAIN fake_users_db : fake_users_db[k].id = k
    /\ \A k \in DOMAIN fake_vehicles_db : fake_vehicles_db[k].id = k
    /\ \A k \in DOMAIN fake_battery_logs_db : fake_battery_logs_db[k].id = k
    /\ \A k \in DOMAIN fake_charging_sessions_db :
          fake_charging_sessions_db[k].id = k
    /\ response.op = "get_users" =>
          LET skip == response.req[1]
              limit == response.req[2]
              n == len(fake_users_db)
              last == IF skip + limit <= n THEN skip + limit ELSE n
          IN /\ response.status = 200
             /\ skip >= n => response.body = <<>>
             /\ skip < n => Len(response.body) = last - skip
             /\ \A i \in 1..Len(response.body) :
                   /\ response.body[i].id = skip + i
                   /\ response.body[i] = fake_users_db[skip + i]

\* with two users stored, get_users(1, 1) has returned the second user alone
C19_Witness ==
    /\ response.op = "get_users"
    /\ response.req = <<1, 1>>
    /\ len(fake_users_db) = 2
    /\ Len(response.body) = 1
    /\ response.body[1].id = 2

\* two registrations of one kind with the same email (VIN), both answered,
\* of which the later one was accepted while the earlier one was pending
Overlapped(i, j) ==
    /\ i \in tasks[j].with
    /\ tasks[i].pc = "done"
    /\ tasks[j].pc = "done"
    /\ tasks[i].op = tasks[j].op
    /\ IF tasks[i].op = "create_user"
       THEN tasks[i].req.email = tasks[j].req.email
       ELSE tasks[i].req.vin = tasks[j].req.vin

Stored(task) ==
    IF task.op = "create_user"
    THEN { k \in DOMAIN fake_users_db :
             fake_users_db[k].email = task.req.email }
    ELSE { k \in DOMAIN fake_vehicles_db :
             fake_vehicles_db[k].vin = task.req.vin }

====
